---- MODULE Spec2Model ----
(***************************************************************************)
(* House price prediction service (app.py): the process-wide current-model *)
(* slot (loaded_model, model_metadata, model_info), the loader             *)
(* load_model_from_file, the predictor predict_price with its confidence   *)
(* heuristic calculate_confidence, and the api_model_info read.            *)
(*                                                                         *)
(* Encodings.  A path is a sequence of string pieces whose concatenation   *)
(* is the path, so that endswith looks at the last piece; <<>> stands for  *)
(* Python's None and <<"">> for the empty string.  A message is a sequence *)
(* of string pieces (prefix, then str(e)).  Python values that may be None *)
(* are records of one shape with a kind field.  Feature values, means and  *)
(* standard deviations are integers; a z-score is the exact quotient       *)
(* num/den, point scores are in tenths (9 stands for 0.9), prices are in   *)
(* thousandths of a dollar (452301700 stands for 452301.7) and a formatted *)
(* price is the sequence of its characters.  No price of the model has a   *)
(* 5 as its thousandths digit, where the rounding of the binary float to   *)
(* cents would depend on the float's representation error.                 *)
(***************************************************************************)
EXTENDS Integers, Sequences, FiniteSets, TLC

VARIABLES
    loaded_model,    \* app.py:27
    model_metadata,  \* app.py:28
    model_info,      \* app.py:29
    clock,           \* the number of loads so far: what datetime.now() reads
    last,            \* the most recent completed call: inputs, globals before, outcome
    last_ok_load,    \* the most recent load call that returned True
    ldr,             \* a load_model_from_file call in flight on another thread
    prd              \* a predict_price call in flight on another thread

vars == <<loaded_model, model_metadata, model_info, clock, last, last_ok_load, ldr, prd>>

\* The number of load calls a run makes (each reads a later datetime.now()).
MaxLoads == 2

----------------------------------------------------------------------------
(* Paths and the files behind them *)

PathNone == <<>>
PathEmpty == <<"">>

ModelA == <<"saved_models/a", ".joblib">>
ModelB == <<"saved_models/b", ".pkl">>
ModelNoPredict == <<"saved_models/scaler", ".pkl">>
ModelCorrupt == <<"saved_models/corrupt", ".pkl">>
ModelGone == <<"saved_models/gone", ".joblib">>
ModelBackup == <<"saved_models/a", ".joblib", ".bak">>
ModelNull == <<"saved_models/null", ".pkl">>

ModelPaths ==
    {ModelA, ModelB, ModelNoPredict, ModelCorrupt, ModelGone, ModelBackup,
     ModelNull}

MetaA == <<"saved_models/a", "_metadata.json">>
MetaB == <<"saved_models/b", "_metadata.json">>
MetaNoRanges == <<"saved_models/metrics_only", ".json">>
MetaEmptyObject == <<"saved_models/empty", ".json">>
MetaArray == <<"saved_models/array", ".json">>
MetaPartial == <<"saved_models/partial", "_metadata.json">>
MetaTruncated == <<"saved_models/truncated", ".json">>
MetaGone == <<"saved_models/gone", "_metadata.json">>
MetaOtherFeatures == <<"saved_models/lot_size", "_metadata.json">>
MetaNumber == <<"saved_models/number", ".json">>

MetadataPaths ==
    {PathNone, PathEmpty, MetaA, MetaB, MetaNoRanges, MetaEmptyObject,
     MetaArray, MetaPartial, MetaTruncated, MetaGone, MetaOtherFeatures,
     MetaNumber}

\* endswith mistaken for a substring test
EndsWith_Contains(path, suffix) == \E i \in 1..Len(path) : path[i] = suffix

\* str.endswith(suffix) for a suffix that is one piece of the path
EndsWith(path, suffix) == Len(path) > 0 /\ path[Len(path)] = suffix

\* Python truth of a path argument: None and '' are false
PathTruthy(path) == path # PathNone /\ path # PathEmpty

\* os.path.exists
Exists(path) ==
    path \in {ModelA, ModelB, ModelNoPredict, ModelCorrupt, ModelBackup, ModelNull,
              MetaA, MetaB, MetaNoRanges, MetaEmptyObject, MetaArray,
              MetaPartial, MetaTruncated, MetaOtherFeatures, MetaNumber}

----------------------------------------------------------------------------
(* Deserialized models *)

Features == <<"Square_Footage", "Bedrooms", "Total_Bathrooms">>

\* id: the load call that deserialized the value and assigned it
None ==
    [kind |-> "None", id |-> 0, src |-> PathNone, intercept |-> 0,
     coef |-> <<0, 0, 0>>]

Estimator(path, intercept, coef) ==
    [kind |-> "LinearRegression", id |-> 0, src |-> path, intercept |-> intercept,
     coef |-> coef]

\* a pickled object that is no regressor: it has no predict method
NoRegressor(path) ==
    [kind |-> "StandardScaler", id |-> 0, src |-> path, intercept |-> 0,
     coef |-> <<0, 0, 0>>]

\* An exception is its str(e) text; NoExc: nothing was raised
NoExc == ""

\* joblib.load(path) / pickle.load(open(path, 'rb')): the object or the exception
Deserialize(path) ==
    IF ~Exists(path)
    THEN [exc |-> "[Errno 2] No such file or directory", obj |-> None]
    ELSE IF path = ModelCorrupt
    THEN [exc |-> "invalid load key", obj |-> None]
    ELSE IF path = ModelNoPredict
    THEN [exc |-> NoExc, obj |-> NoRegressor(path)]
    ELSE IF path = ModelNull
    THEN [exc |-> NoExc, obj |-> [None EXCEPT !.src = path]]
    ELSE IF path = ModelB
    THEN [exc |-> NoExc,
          obj |-> Estimator(path, 301700, <<151000, 40000000, 15000000>>)]
    ELSE [exc |-> NoExc,
          obj |-> Estimator(path, 50000006, <<300000, 20000000, 15000000>>)]

\* model.predict([[x1, x2, x3]])[0]
ModelPredict(model, x) ==
    IF model.kind = "LinearRegression"
    THEN [exc |-> NoExc,
          value |-> model.intercept + model.coef[1] * x[1]
                      + model.coef[2] * x[2] + model.coef[3] * x[3]]
    ELSE [exc |-> "object has no attribute 'predict'", value |-> 0]

----------------------------------------------------------------------------
(* Metadata: the value json.load returns *)

NoStats == [present |-> FALSE, complete |-> FALSE, mean |-> 0, std |-> 0]
Stats(mean, std) == [present |-> TRUE, complete |-> TRUE, mean |-> mean, std |-> std]
\* an entry that lacks one of the keys min, max, mean, std
BrokenStats == [present |-> TRUE, complete |-> FALSE, mean |-> 0, std |-> 0]

NoFeatureRanges == [f \in {Features[i] : i \in 1..3} |-> NoStats]

MetadataNone ==
    [kind |-> "None", id |-> 0, src |-> PathNone, empty |-> TRUE,
     r2_score |-> "None", rmse |-> "None", mae |-> "None",
     training_samples |-> "None",
     has_feature_ranges |-> FALSE, feature_ranges |-> NoFeatureRanges]

JsonObject(path, r2, rmse, mae, n, has, ranges) ==
    [kind |-> "dict", id |-> 0, src |-> path, empty |-> FALSE,
     r2_score |-> r2, rmse |-> rmse, mae |-> mae, training_samples |-> n,
     has_feature_ranges |-> has, feature_ranges |-> ranges]

JsonEmptyObject(path) == [MetadataNone EXCEPT !.kind = "dict", !.src = path]

JsonArray(path) == [MetadataNone EXCEPT !.kind = "list", !.src = path, !.empty = FALSE]

\* a file that holds a bare non-zero number
JsonNumber(path) == [MetadataNone EXCEPT !.kind = "int", !.src = path, !.empty = FALSE]

RangesA ==
    [NoFeatureRanges EXCEPT !["Square_Footage"] = Stats(2000, 500),
                            !["Bedrooms"] = Stats(3, 1),
                            !["Total_Bathrooms"] = Stats(2, 1)]

\* statistics for two of the three features; bathrooms were constant in training
RangesB ==
    [NoFeatureRanges EXCEPT !["Square_Footage"] = Stats(2500, 250),
                            !["Total_Bathrooms"] = Stats(2, 0)]

RangesPartial ==
    [NoFeatureRanges EXCEPT !["Square_Footage"] = Stats(2000, 500),
                            !["Bedrooms"] = BrokenStats]

\* json.load(open(path)): the value or the exception
JsonLoad(path) ==
    IF path = MetaTruncated
    THEN [exc |-> "Expecting value: line 1 column 1 (char 0)", value |-> MetadataNone]
    ELSE IF path = MetaA
    THEN [exc |-> NoExc,
          value |-> JsonObject(path, "0.91", "41250.5", "30100.2", "800", TRUE, RangesA)]
    ELSE IF path = MetaB
    THEN [exc |-> NoExc,
          value |-> JsonObject(path, "0.87", "52000.0", "None", "650", TRUE, RangesB)]
    ELSE IF path = MetaPartial
    THEN [exc |-> NoExc,
          value |-> JsonObject(path, "0.80", "None", "None", "None", TRUE, RangesPartial)]
    ELSE IF path = MetaNoRanges
    THEN [exc |-> NoExc,
          value |-> JsonObject(path, "0.75", "60000.0", "45000.0", "400", FALSE,
                               NoFeatureRanges)]
    ELSE IF path = MetaOtherFeatures
    THEN [exc |-> NoExc,
          value |-> JsonObject(path, "0.66", "70000.0", "None", "300", TRUE,
                               NoFeatureRanges)]
    ELSE IF path = MetaArray
    THEN [exc |-> NoExc, value |-> JsonArray(path)]
    ELSE IF path = MetaNumber
    THEN [exc |-> NoExc, value |-> JsonNumber(path)]
    ELSE [exc |-> NoExc, value |-> JsonEmptyObject(path)]

\* Python truth of model_metadata: None, {} and [] are false
MetadataTruthy(m) == m.kind # "None" /\ ~m.empty

----------------------------------------------------------------------------
(* The current-model slot and load_model_from_file *)

InfoNone ==
    [kind |-> "None", model_path |-> PathNone, metadata_path |-> PathNone,
     loaded_at |-> 0, model_type |-> "", features |-> <<>>, has_metrics |-> FALSE,
     r2_score |-> "None", rmse |-> "None", mae |-> "None",
     training_samples |-> "None"]

Globals == [loaded_model |-> loaded_model, model_metadata |-> model_metadata,
            model_info |-> model_info]

\* lines 41-49: pick the deserializer by extension and assign loaded_model
LoadDeserialize(g, model_path, now) ==
    IF EndsWith(model_path, ".joblib") \/ EndsWith(model_path, ".pkl")
    THEN LET d == Deserialize(model_path)
         IN  IF d.exc # NoExc
             THEN [g |-> g, exc |-> d.exc, deserializations |-> 1]
             ELSE [g |-> [g EXCEPT !.loaded_model = [d.obj EXCEPT !.id = now]],
                   exc |-> NoExc,
                   deserializations |-> 1]
    ELSE [g |-> g, exc |-> "Unsupported model file format. Use .joblib or .pkl",
          deserializations |-> 0]

\* line 52 left out
LoadResetMetadata_Skip(g) == g

\* line 52
LoadResetMetadata(g) == [g EXCEPT !.model_metadata = MetadataNone]

\* lines 53-56 without the os.path.exists test
LoadReadMetadata_NoExistsCheck(g, metadata_path, now) ==
    IF PathTruthy(metadata_path)
    THEN IF ~Exists(metadata_path)
         THEN [g |-> g, exc |-> "[Errno 2] No such file or directory"]
         ELSE LET j == JsonLoad(metadata_path)
              IN  IF j.exc # NoExc
                  THEN [g |-> g, exc |-> j.exc]
                  ELSE [g |-> [g EXCEPT !.model_metadata = [j.value EXCEPT !.id = now]],
                        exc |-> NoExc]
    ELSE [g |-> g, exc |-> NoExc]

\* lines 53-56
LoadReadMetadata(g, metadata_path, now) ==
    IF PathTruthy(metadata_path) /\ Exists(metadata_path)
    THEN LET j == JsonLoad(metadata_path)
         IN  IF j.exc # NoExc
             THEN [g |-> g, exc |-> j.exc]
             ELSE [g |-> [g EXCEPT !.model_metadata = [j.value EXCEPT !.id = now]],
                   exc |-> NoExc]
    ELSE [g |-> g, exc |-> NoExc]

\* lines 59-65 run only while no model_info exists yet
LoadSetInfo_OnlyFirst(g, model_path, metadata_path, now) ==
    IF g.model_info.kind # "None" THEN g
    ELSE [g EXCEPT !.model_info =
            [InfoNone EXCEPT !.kind = "dict", !.model_path = model_path,
                             !.metadata_path = metadata_path, !.loaded_at = now,
                             !.model_type = "LinearRegression",
                             !.features = Features]]

\* lines 59-65
LoadSetInfo(g, model_path, metadata_path, now) ==
    [g EXCEPT !.model_info =
        [InfoNone EXCEPT !.kind = "dict", !.model_path = model_path,
                         !.metadata_path = metadata_path, !.loaded_at = now,
                         !.model_type = "LinearRegression", !.features = Features]]

\* lines 67-73
LoadUpdateInfo(g) ==
    IF MetadataTruthy(g.model_metadata)
    THEN IF g.model_metadata.kind = "list"
         THEN [g |-> g, exc |-> "'list' object has no attribute 'get'"]
         ELSE IF g.model_metadata.kind = "int"
         THEN [g |-> g, exc |-> "'int' object has no attribute 'get'"]
         ELSE [g |-> [g EXCEPT !.model_info =
                        [@ EXCEPT !.has_metrics = TRUE,
                                  !.r2_score = g.model_metadata.r2_score,
                                  !.rmse = g.model_metadata.rmse,
                                  !.mae = g.model_metadata.mae,
                                  !.training_samples =
                                      g.model_metadata.training_samples]],
               exc |-> NoExc]
    ELSE [g |-> g, exc |-> NoExc]

\* lines 77-79: the except clause
LoadFailure(g, exc, n) ==
    [g |-> g, ok |-> FALSE, message |-> <<"Error loading model: ", exc>>,
     raised |-> FALSE, deserializations |-> n]

\* lines 35-79
load_model_from_file(g, model_path, metadata_path, now) ==
    LET s1 == LoadDeserialize(g, model_path, now)
        s2 == LoadReadMetadata(LoadResetMetadata(s1.g), metadata_path, now)
        s3 == LoadUpdateInfo(LoadSetInfo(s2.g, model_path, metadata_path, now))
    IN  IF s1.exc # NoExc THEN LoadFailure(s1.g, s1.exc, s1.deserializations)
        ELSE IF s2.exc # NoExc THEN LoadFailure(s2.g, s2.exc, s1.deserializations)
        ELSE IF s3.exc # NoExc THEN LoadFailure(s3.g, s3.exc, s1.deserializations)
        ELSE [g |-> s3.g, ok |-> TRUE, message |-> <<"Model loaded successfully!">>,
              raised |-> FALSE, deserializations |-> s1.deserializations]

----------------------------------------------------------------------------
(* calculate_confidence *)

Abs(x) == IF x < 0 THEN 0 - x ELSE x

\* line 135: abs((value - mean_val) / std_val) if std_val > 0 else 0
ZScore(value, mean_val, std_val) ==
    IF std_val > 0
    THEN [num |-> Abs(value - mean_val), den |-> std_val]
    ELSE [num |-> 0, den |-> 1]

\* lines 138-145 with strict comparisons
PointScore_Strict(z_score) ==
    IF z_score.num < 1 * z_score.den THEN 9
    ELSE IF z_score.num < 2 * z_score.den THEN 7
    ELSE IF z_score.num < 3 * z_score.den THEN 5
    ELSE 3

\* lines 138-145 with the scores of lines 141 and 143 exchanged
PointScore_Exchanged(z_score) ==
    IF z_score.num <= 1 * z_score.den THEN 9
    ELSE IF z_score.num <= 2 * z_score.den THEN 5
    ELSE IF z_score.num <= 3 * z_score.den THEN 7
    ELSE 3

\* lines 138-145: the point score (in tenths) of a z-score
PointScore(z_score) ==
    IF z_score.num <= 1 * z_score.den THEN 9
    ELSE IF z_score.num <= 2 * z_score.den THEN 7
    ELSE IF z_score.num <= 3 * z_score.den THEN 5
    ELSE 3

NoPoints == [f \in {Features[i] : i \in 1..3} |-> 0]

\* lines 127-145 with an entry that lacks a key passed over
RECURSIVE ScoreLoop_SkipBroken(_, _, _, _)
ScoreLoop_SkipBroken(ranges, values, i, acc) ==
    IF i > Len(Features) THEN acc
    ELSE LET entry == ranges[Features[i]]
         IN  IF ~entry.present \/ ~entry.complete
             THEN ScoreLoop_SkipBroken(ranges, values, i + 1, acc)
             ELSE LET p == PointScore(ZScore(values[i], entry.mean, entry.std))
                  IN  ScoreLoop_SkipBroken(ranges, values, i + 1,
                                [acc EXCEPT !.confidence_scores = Append(@, p),
                                            !.points[Features[i]] = p])

\* lines 127-145: the loop over zip(features, values), from feature i on;
\* acc holds confidence_scores and, per feature, the score appended for it
RECURSIVE ScoreLoop(_, _, _, _)
ScoreLoop(ranges, values, i, acc) ==
    IF i > Len(Features) THEN acc
    ELSE LET entry == ranges[Features[i]]
         IN  IF ~entry.present
             THEN ScoreLoop(ranges, values, i + 1, acc)
             ELSE IF ~entry.complete
             THEN [acc EXCEPT !.exc = "KeyError"]
             ELSE LET p == PointScore(ZScore(values[i], entry.mean, entry.std))
                  IN  ScoreLoop(ranges, values, i + 1,
                                [acc EXCEPT !.confidence_scores = Append(@, p),
                                            !.points[Features[i]] = p])

RECURSIVE Sum(_)
Sum(seq) == IF seq = <<>> THEN 0 ELSE Head(seq) + Sum(Tail(seq))

\* lines 147-156 with > for >= at line 149
Label_Strict(confidence_scores) ==
    IF confidence_scores # <<>>
    THEN IF Sum(confidence_scores) > 8 * Len(confidence_scores) THEN "High"
         ELSE IF Sum(confidence_scores) >= 6 * Len(confidence_scores) THEN "Medium"
         ELSE "Low"
    ELSE "Unknown"

\* lines 147-156: the label of the average of the scores
Label(confidence_scores) ==
    IF confidence_scores # <<>>
    THEN IF Sum(confidence_scores) >= 8 * Len(confidence_scores) THEN "High"
         ELSE IF Sum(confidence_scores) >= 6 * Len(confidence_scores) THEN "Medium"
         ELSE "Low"
    ELSE "Unknown"

\* lines 115-160 over the three reads of the global model_metadata: m_truth
\* (line 117, not model_metadata), m_keys (line 117, 'feature_ranges' not in
\* model_metadata) and m_ranges (line 121, model_metadata['feature_ranges'])
ConfidenceOf(m_truth, m_keys, m_ranges, values) ==
    IF ~MetadataTruthy(m_truth)
    THEN [label |-> "Unknown", exc |-> NoExc, points |-> NoPoints]
    ELSE IF m_keys.kind = "None"
    THEN [label |-> "", exc |-> "argument of type 'NoneType' is not iterable",
          points |-> NoPoints]
    ELSE IF m_keys.kind = "int"
    THEN [label |-> "", exc |-> "argument of type 'int' is not iterable",
          points |-> NoPoints]
    ELSE IF ~m_keys.has_feature_ranges
    THEN [label |-> "Unknown", exc |-> NoExc, points |-> NoPoints]
    ELSE IF m_ranges.kind # "dict" \/ ~m_ranges.has_feature_ranges
    THEN [label |-> "Unknown", exc |-> NoExc, points |-> NoPoints]
    ELSE LET acc == ScoreLoop(m_ranges.feature_ranges, values, 1,
                              [confidence_scores |-> <<>>, points |-> NoPoints,
                               exc |-> NoExc])
         IN  IF acc.exc # NoExc
             THEN [label |-> "Unknown", exc |-> NoExc, points |-> acc.points]
             ELSE [label |-> Label(acc.confidence_scores), exc |-> NoExc,
                   points |-> acc.points]

\* lines 115-160, called with no other thread writing the globals
calculate_confidence(g, square_footage, bedrooms, total_bathrooms) ==
    ConfidenceOf(g.model_metadata, g.model_metadata, g.model_metadata,
                 <<square_footage, bedrooms, total_bathrooms>>)

----------------------------------------------------------------------------
(* predict_price *)

ResultNone ==
    [kind |-> "None", predicted_price |-> 0, formatted_price |-> <<>>,
     confidence |-> "", inputs |-> <<0, 0, 0>>]

DigitChars == <<"0", "1", "2", "3", "4", "5", "6", "7", "8", "9">>

\* the decimal digits of a natural number
RECURSIVE Digits(_)
Digits(n) ==
    IF n < 10 THEN <<DigitChars[n + 1]>>
    ELSE Append(Digits(n \div 10), DigitChars[(n % 10) + 1])

\* line 100, the "," of the format: groups of three digits from the right
RECURSIVE Grouped(_)
Grouped(n) ==
    IF n < 1000 THEN Digits(n)
    ELSE Grouped(n \div 1000)
             \o <<",", DigitChars[((n \div 100) % 10) + 1],
                  DigitChars[((n \div 10) % 10) + 1], DigitChars[(n % 10) + 1]>>

\* line 100, the ".2f" of the format: the nearest number of cents (a tie, which
\* only an exactly representable value can be, goes to the even one)
RoundCents(magnitude) ==
    LET down == magnitude \div 10
        rest == magnitude % 10
    IN  IF rest > 5 \/ (rest = 5 /\ down % 2 = 1) THEN down + 1 ELSE down

\* line 100 with the format ".2f": no thousands separators
FormatPrice_Ungrouped(prediction) ==
    LET cents == RoundCents(Abs(prediction))
    IN  <<"$">> \o (IF prediction < 0 THEN <<"-">> ELSE <<>>)
            \o Digits(cents \div 100)
            \o <<".", DigitChars[((cents \div 10) % 10) + 1],
                 DigitChars[(cents % 10) + 1]>>

\* line 100: f"${prediction:,.2f}"
FormatPrice(prediction) ==
    LET cents == RoundCents(Abs(prediction))
    IN  <<"$">> \o (IF prediction < 0 THEN <<"-">> ELSE <<>>)
            \o Grouped(cents \div 100)
            \o <<".", DigitChars[((cents \div 10) % 10) + 1],
                 DigitChars[(cents % 10) + 1]>>

NoMessage == <<>>

PredictReturn(result, error, predict_calls, predict_args, confidence_calls, points) ==
    [result |-> result, error |-> error, raised |-> FALSE,
     predict_calls |-> predict_calls, predict_args |-> predict_args,
     confidence_calls |-> confidence_calls, points |-> points]

\* lines 98-109
PredictResult(prediction, confidence, square_footage, bedrooms, total_bathrooms) ==
    [kind |-> "dict", predicted_price |-> prediction,
     formatted_price |-> FormatPrice(prediction), confidence |-> confidence,
     inputs |-> <<square_footage, bedrooms, total_bathrooms>>]

\* lines 111-113 left out: the exception reaches the caller
PredictFailure_Propagates(exc, predict_calls, predict_args, confidence_calls) ==
    [PredictReturn(ResultNone, NoMessage, predict_calls, predict_args,
                   confidence_calls, NoPoints) EXCEPT !.raised = TRUE]

\* lines 111-113: the except clause
PredictFailure(exc, predict_calls, predict_args, confidence_calls) ==
    PredictReturn(ResultNone, <<"Prediction error: ", exc>>, predict_calls,
                  predict_args, confidence_calls, NoPoints)

\* line 84 left out
NoModelLoaded_Unchecked(g) == FALSE

\* line 84
NoModelLoaded(g) == g.loaded_model.kind = "None"

\* line 88 with < for <=
InvalidInput_ZeroAllowed(square_footage, bedrooms, total_bathrooms) ==
    square_footage < 0 \/ bedrooms < 0 \/ total_bathrooms < 0

\* line 88
InvalidInput(square_footage, bedrooms, total_bathrooms) ==
    square_footage <= 0 \/ bedrooms <= 0 \/ total_bathrooms <= 0

\* line 92 with the last two values exchanged
FeatureVector_Exchanged(square_footage, bedrooms, total_bathrooms) ==
    <<square_footage, total_bathrooms, bedrooms>>

\* line 92: the one row handed to predict
FeatureVector(square_footage, bedrooms, total_bathrooms) ==
    <<square_footage, bedrooms, total_bathrooms>>

\* lines 81-113
predict_price(g, square_footage, bedrooms, total_bathrooms) ==
    IF NoModelLoaded(g)
    THEN PredictReturn(ResultNone, <<"No model loaded. Please load a model first.">>,
                       0, <<>>, 0, NoPoints)
    ELSE IF InvalidInput(square_footage, bedrooms, total_bathrooms)
    THEN PredictReturn(ResultNone, <<"All values must be positive numbers.">>,
                       0, <<>>, 0, NoPoints)
    ELSE LET features == FeatureVector(square_footage, bedrooms, total_bathrooms)
             p == ModelPredict(g.loaded_model, features)
             c == calculate_confidence(g, square_footage, bedrooms, total_bathrooms)
         IN  IF p.exc # NoExc THEN PredictFailure(p.exc, 1, features, 0)
             ELSE IF c.exc # NoExc THEN PredictFailure(c.exc, 1, features, 1)
             ELSE PredictReturn(
                      PredictResult(p.value, c.label, square_footage, bedrooms,
                                    total_bathrooms),
                      NoMessage, 1, features, 1, c.points)

\* lines 81-160 with model_metadata cleared on the way
PredictLeaves_ClearsMetadata(g) == [g EXCEPT !.model_metadata = MetadataNone]

\* lines 81-160: the globals after predict_price, which has no global
\* statement and calls only predict on the model and reads of the metadata
PredictLeaves(g) == g

----------------------------------------------------------------------------
(* api_model_info *)

\* lines 307-317
api_model_info(g) ==
    IF g.loaded_model.kind = "None"
    THEN [success |-> FALSE, message |-> <<"No model loaded">>,
          model_info |-> InfoNone, model_metadata |-> MetadataNone]
    ELSE [success |-> TRUE, message |-> NoMessage,
          model_info |-> g.model_info, model_metadata |-> g.model_metadata]

----------------------------------------------------------------------------
(* Calls made one at a time *)

SquareFootages == {0, 1500, 2000, 2600, 3000, 3100, 3500, 3600}
\* <<bedrooms, total_bathrooms>>
RoomCounts == {<<3, 2>>, <<5, 3>>, <<0, 2>>, <<3, 0 - 1>>}
\* houses far from the training data in two or three features
FarHouses == {<<3600, 8, 6>>, <<2600, 8, 6>>, <<3100, 5, 3>>}

\* the arguments of the predict_price calls: each square footage with a
\* typical house, each pair of room counts with a typical square footage,
\* and the far houses
PredictInputs ==
    {<<s, 3, 2>> : s \in SquareFootages}
        \cup {<<2000, r[1], r[2]>> : r \in RoomCounts}
        \cup FarHouses

NoCall ==
    [op |-> "none", model_path |-> PathNone, metadata_path |-> PathNone,
     args |-> <<0, 0, 0>>,
     pre |-> [loaded_model |-> None, model_metadata |-> MetadataNone,
              model_info |-> InfoNone],
     ok |-> FALSE, message |-> NoMessage, result |-> ResultNone,
     error |-> NoMessage, raised |-> FALSE, deserializations |-> 0,
     predict_calls |-> 0, predict_args |-> <<>>, confidence_calls |-> 0,
     points |-> NoPoints]

\* the (model, metadata) pair a prediction can be computed from
Pair(g) == [model |-> g.loaded_model, metadata |-> g.model_metadata]

LoaderIdle ==
    [pc |-> "idle", model_path |-> PathNone, metadata_path |-> PathNone,
     now |-> 0, before |-> [model |-> None, metadata |-> MetadataNone]]

PredictorIdle ==
    [pc |-> "idle", args |-> <<0, 0, 0>>, pairs |-> {}, open |-> FALSE,
     prediction |-> 0,
     m_truth |-> MetadataNone, m_keys |-> MetadataNone,
     result |-> ResultNone, error |-> NoMessage]

\* lines 26-29
Init ==
    /\ loaded_model = None
    /\ model_metadata = MetadataNone
    /\ model_info = InfoNone
    /\ clock = 0
    /\ last = NoCall
    /\ last_ok_load = NoCall
    /\ ldr = LoaderIdle
    /\ prd = PredictorIdle

\* a call of load_model_from_file(model_path, metadata_path)
Load ==
    /\ clock < MaxLoads
    /\ \E model_path \in ModelPaths, metadata_path \in MetadataPaths :
        \E r \in {load_model_from_file(Globals, model_path, metadata_path, clock + 1)} :
            /\ loaded_model' = r.g.loaded_model
            /\ model_metadata' = r.g.model_metadata
            /\ model_info' = r.g.model_info
            /\ clock' = clock + 1
            /\ last' = [NoCall EXCEPT !.op = "load", !.model_path = model_path,
                                      !.metadata_path = metadata_path,
                                      !.pre = Globals, !.ok = r.ok,
                                      !.message = r.message, !.raised = r.raised,
                                      !.deserializations = r.deserializations]
            /\ last_ok_load' =
                   IF r.ok
                   THEN [NoCall EXCEPT !.op = "load", !.model_path = model_path,
                                       !.metadata_path = metadata_path]
                   ELSE last_ok_load
            /\ UNCHANGED <<ldr, prd>>

\* a call of predict_price(square_footage, bedrooms, total_bathrooms)
Predict ==
    \E args \in PredictInputs :
        \E square_footage \in {args[1]}, bedrooms \in {args[2]},
           total_bathrooms \in {args[3]},
           r \in {predict_price(Globals, args[1], args[2], args[3])},
           g \in {PredictLeaves(Globals)} :
            /\ loaded_model' = g.loaded_model
            /\ model_metadata' = g.model_metadata
            /\ model_info' = g.model_info
            /\ last' = [NoCall EXCEPT !.op = "predict",
                                      !.args = <<square_footage, bedrooms,
                                                 total_bathrooms>>,
                                      !.pre = Globals, !.result = r.result,
                                      !.error = r.error, !.raised = r.raised,
                                      !.predict_calls = r.predict_calls,
                                      !.predict_args = r.predict_args,
                                      !.confidence_calls = r.confidence_calls,
                                      !.points = r.points]
            /\ UNCHANGED <<clock, last_ok_load, ldr, prd>>

\* a GET of /api/model_info
ModelInfoRequest ==
    LET r == api_model_info(Globals)
    IN  /\ last' = [NoCall EXCEPT !.op = "model_info", !.pre = Globals,
                                  !.ok = r.success, !.message = r.message]
        /\ UNCHANGED <<loaded_model, model_metadata, model_info, clock, last_ok_load,
                         ldr, prd>>

Next == Load \/ Predict \/ ModelInfoRequest

Spec == Init /\ [][Next]_vars

----------------------------------------------------------------------------
(* Properties of calls made one at a time *)

Positive(args) == args[1] > 0 /\ args[2] > 0 /\ args[3] > 0

\* the last piece of the path is neither extension
Unsupported(path) == path = <<>> \/ path[Len(path)] \notin {".joblib", ".pkl"}

NoMetadataArgument(path) == path \in {PathNone, PathEmpty, MetaGone}

\* C1: model_info describes the model held in loaded_model: it is set exactly
\* when loaded_model is set, and it names the path and the load call the
\* current loaded_model was deserialized in.
C1_InfoDescribesLoadedModel ==
    /\ (model_info.kind = "None") <=> (loaded_model.kind = "None")
    /\ loaded_model.kind # "None" =>
          /\ model_info.model_path = loaded_model.src
          /\ model_info.loaded_at = loaded_model.id

\* C2 as stated: a prediction with a non-positive input fails with the
\* invalid-input message whatever the model state, without calling predict.
C2_InvalidInputWhateverModelState ==
    (last.op = "predict" /\ ~Positive(last.args)) =>
        /\ last.result = ResultNone
        /\ last.error = <<"All values must be positive numbers.">>
        /\ last.predict_calls = 0

\* C2 amended: a prediction with a non-positive input fails without calling
\* predict: with the invalid-input message when a model is loaded and with the
\* no-model message when none is.
C2_InvalidInputRejected ==
    (last.op = "predict" /\ ~Positive(last.args)) =>
        /\ last.result = ResultNone
        /\ last.predict_calls = 0
        /\ last.error =
              IF last.pre.loaded_model.kind = "None"
              THEN <<"No model loaded. Please load a model first.">>
              ELSE <<"All values must be positive numbers.">>

C2_Witness ==
    /\ last.op = "predict"
    /\ last.args[1] > 0 /\ last.args[2] = 0
    /\ last.pre.loaded_model.kind # "None"
    /\ last.error = <<"All values must be positive numbers.">>

\* C3: a prediction with positive inputs and no model loaded fails with the
\* no-model message, returns no result, and calls neither predict nor
\* calculate_confidence.
C3_NoModelLoaded ==
    (last.op = "predict" /\ Positive(last.args) /\ last.pre.loaded_model.kind = "None") =>
        /\ last.result = ResultNone
        /\ last.error = <<"No model loaded. Please load a model first.">>
        /\ last.predict_calls = 0
        /\ last.confidence_calls = 0

C3_Witness ==
    /\ last.op = "predict" /\ Positive(last.args)
    /\ loaded_model.kind = "None"
    /\ last.error = <<"No model loaded. Please load a model first.">>

\* C5: model_metadata is None or the value read from the metadata file in the
\* load call that assigned the current loaded_model.
C5_MetadataOfCurrentModel ==
    model_metadata.kind # "None" =>
        /\ loaded_model.id > 0
        /\ model_metadata.id = loaded_model.id
        /\ model_info.loaded_at = loaded_model.id
        /\ model_metadata = [JsonLoad(model_info.metadata_path).value
                               EXCEPT !.id = loaded_model.id]

\* a later model loaded without metadata after a model that had some
C5_Witness ==
    /\ last.op = "load" /\ last.ok
    /\ last.pre.model_metadata.kind = "dict"
    /\ loaded_model.kind = "LinearRegression"
    /\ loaded_model.id = clock
    /\ loaded_model.src # last.pre.loaded_model.src
    /\ model_metadata.kind = "None"

\* C6: right after a load that returned True and loaded a model from path p,
\* the model-info request succeeds and its model_info names p.
C6_InfoNamesPathJustLoaded ==
    (last.op = "load" /\ last.ok /\ loaded_model.kind # "None") =>
        /\ api_model_info(Globals).success
        /\ api_model_info(Globals).model_info.model_path = last.model_path

C6_Witness ==
    /\ last.op = "load" /\ last.ok
    /\ last.pre.model_info.kind = "dict"
    /\ last.pre.model_info.model_path # last.model_path
    /\ api_model_info(Globals).model_info.model_path = last.model_path

C8_UnsupportedFormat ==
    (last.op = "load" /\ Unsupported(last.model_path)) =>
        /\ ~last.ok
        /\ last.message = <<"Error loading model: ",
                            "Unsupported model file format. Use .joblib or .pkl">>
        /\ last.deserializations = 0
        /\ Globals = last.pre

C8_Witness ==
    /\ last.op = "load" /\ last.model_path = ModelBackup
    /\ last.pre.loaded_model.kind # "None"
    /\ ~last.ok /\ last.deserializations = 0
    /\ Globals = last.pre

\* C9: load_model_from_file and predict_price never raise: a failed load
\* returns (False, message), a failed prediction (None, message), each message
\* non-empty, and a prediction returns exactly one of a result and an error.
C9_FailuresAreReturned ==
    /\ last.op = "load" =>
          /\ ~last.raised
          /\ last.message # NoMessage
          /\ ~last.ok => (Len(last.message) = 2
                           /\ last.message[1] = "Error loading model: "
                           /\ last.message[2] # NoExc)
    /\ last.op = "predict" =>
          /\ ~last.raised
          /\ (last.result = ResultNone) # (last.error = NoMessage)
          /\ last.error # NoMessage => last.error[Len(last.error)] # NoExc

\* the model's predict call fails inside predict_price
C9_Witness ==
    /\ last.op = "predict"
    /\ last.predict_calls = 1
    /\ last.result = ResultNone
    /\ last.error = <<"Prediction error: ", "object has no attribute 'predict'">>

\* the score the thresholds give a value at distance d from the mean
ThresholdScore(d, std) ==
    IF std = 0 \/ d <= std THEN 9
    ELSE IF d <= 2 * std THEN 7
    ELSE IF d <= 3 * std THEN 5
    ELSE 3

Distance(a, b) == IF a >= b THEN a - b ELSE b - a

\* C10: for each feature that has statistics, the point score is 0.9 for
\* z <= 1, 0.7 for 1 < z <= 2, 0.5 for 2 < z <= 3 and 0.3 for z > 3, where
\* z = |value - mean| / std, and 0.9 when std is zero; with mean 2000 and std
\* 500 the value 2000 scores 0.9 and the value 3600 scores 0.3.
C10_PointScoreThresholds ==
    (/\ last.op = "predict" /\ last.confidence_calls = 1
     /\ last.pre.model_metadata.has_feature_ranges
     /\ \A i \in 1..3 :
           LET e == last.pre.model_metadata.feature_ranges[Features[i]]
           IN  e.present => e.complete) =>
        /\ \A i \in 1..3 :
              LET e == last.pre.model_metadata.feature_ranges[Features[i]]
              IN  last.points[Features[i]] =
                     IF e.present
                     THEN ThresholdScore(Distance(last.args[i], e.mean), e.std)
                     ELSE 0
        /\ (/\ last.pre.model_metadata.feature_ranges["Square_Footage"] =
                  Stats(2000, 500)
            /\ last.args[1] = 2000) => last.points["Square_Footage"] = 9
        /\ (/\ last.pre.model_metadata.feature_ranges["Square_Footage"] =
                  Stats(2000, 500)
            /\ last.args[1] = 3600) => last.points["Square_Footage"] = 3

\* mean 2000, std 500, value 3600 (z = 3.2); bathrooms with std 0
C10_Witness ==
    /\ last.op = "predict" /\ last.confidence_calls = 1
    /\ last.args[1] = 3600
    /\ last.pre.model_metadata.feature_ranges["Square_Footage"] = Stats(2000, 500)
    /\ last.points["Square_Footage"] = 3

\* the metadata is an object with feature_ranges whose entries, where
\* present, hold all four statistics
WellFormedRanges(m) ==
    /\ m.kind = "dict" /\ m.has_feature_ranges
    /\ \A i \in 1..3 :
          m.feature_ranges[Features[i]].present =>
              m.feature_ranges[Features[i]].complete

\* the features of the prediction that have statistics in the metadata
Scored(m) == {i \in 1..3 : m.feature_ranges[Features[i]].present}

\* the score of feature i of the last prediction, in tenths, from the thresholds
ScoreOf(i) ==
    LET e == last.pre.model_metadata.feature_ranges[Features[i]]
    IN  IF e.present THEN ThresholdScore(Distance(last.args[i], e.mean), e.std)
        ELSE 0

\* C11: the label is computed from the average of the point scores over
\* exactly the features that have statistics: "High" for an average of at
\* least 0.8, "Medium" from 0.6 up to 0.8, "Low" below 0.6, and "Unknown" when
\* no feature has statistics; three features each with z <= 1 give "High".
C11_LabelFromAverage ==
    (/\ last.op = "predict" /\ last.result.kind = "dict"
     /\ WellFormedRanges(last.pre.model_metadata)) =>
        LET n == Cardinality(Scored(last.pre.model_metadata))
            total == ScoreOf(1) + ScoreOf(2) + ScoreOf(3)
        IN  /\ last.result.confidence =
                  IF n = 0 THEN "Unknown"
                  ELSE IF total >= 8 * n THEN "High"
                  ELSE IF total >= 6 * n THEN "Medium"
                  ELSE "Low"
            /\ (n = 3 /\ \A i \in 1..3 : ScoreOf(i) = 9) =>
                   last.result.confidence = "High"

\* two features have statistics, their scores are 0.7 and 0.9, and the
\* average 0.8 is labelled "High"
C11_Witness ==
    /\ last.op = "predict" /\ last.result.kind = "dict"
    /\ WellFormedRanges(last.pre.model_metadata)
    /\ Scored(last.pre.model_metadata) = {1, 3}
    /\ ScoreOf(1) = 7 /\ ScoreOf(3) = 9
    /\ last.result.confidence = "High"

\* the values a feature takes in the calls
FeatureValues(i) == {a[i] : a \in PredictInputs}

\* the labels in the order of the averages they stand for
LabelRank(label) ==
    IF label = "High" THEN 3
    ELSE IF label = "Medium" THEN 2
    ELSE IF label = "Low" THEN 1
    ELSE 0

\* the last prediction's inputs with feature i moved to v
Moved(i, v) == [last.args EXCEPT ![i] = v]

\* the label of the last prediction's model state for the inputs a
LabelFor(a) == calculate_confidence(last.pre, a[1], a[2], a[3]).label

\* C12: the bucketing of the z-score is monotonic: for a fixed mean and a
\* std > 0, a value at least as far from the mean as another scores no higher;
\* so the label never improves when one feature moves further from its mean
\* while the other features stay fixed.
C12_ScoreMonotonic ==
    (/\ last.op = "predict" /\ last.result.kind = "dict"
     /\ WellFormedRanges(last.pre.model_metadata)) =>
        \A i \in Scored(last.pre.model_metadata) :
            LET e == last.pre.model_metadata.feature_ranges[Features[i]]
            IN  \A v \in FeatureValues(i) :
                    /\ (/\ e.std > 0
                        /\ Distance(last.args[i], e.mean) <= Distance(v, e.mean)) =>
                           PointScore(ZScore(v, e.mean, e.std)) <=
                               last.points[Features[i]]
                    /\ (/\ e.std > 0
                        /\ Distance(v, e.mean) <= Distance(last.args[i], e.mean)) =>
                           last.points[Features[i]] <=
                               PointScore(ZScore(v, e.mean, e.std))
                    /\ Distance(last.args[i], e.mean) <= Distance(v, e.mean) =>
                           LabelRank(LabelFor(Moved(i, v))) <=
                               LabelRank(last.result.confidence)

\* a "Medium" prediction whose label is "Low" once the bedrooms move further
\* from their mean
C12_Witness ==
    /\ last.op = "predict" /\ last.result.kind = "dict"
    /\ WellFormedRanges(last.pre.model_metadata)
    /\ last.result.confidence = "Medium"
    /\ 2 \in Scored(last.pre.model_metadata)
    /\ \E v \in FeatureValues(2) :
          /\ Distance(last.args[2],
                      last.pre.model_metadata.feature_ranges["Bedrooms"].mean)
                 < Distance(v, last.pre.model_metadata.feature_ranges["Bedrooms"].mean)
          /\ PointScore(ZScore(v, last.pre.model_metadata.feature_ranges["Bedrooms"].mean,
                               last.pre.model_metadata.feature_ranges["Bedrooms"].std))
                 < last.points["Bedrooms"]
          /\ LabelFor(Moved(2, v)) = "Low"

\* the price the loaded model of the last call's state gives its arguments
ModelPrice == ModelPredict(last.pre.loaded_model, last.args).value

\* C13: an error raised while the confidence is computed is absorbed inside
\* calculate_confidence, which then yields "Unknown": a prediction that has
\* reached the confidence computation succeeds with the model's price, and
\* with "Unknown" where the metadata cannot be evaluated.
C13_ConfidenceErrorsAbsorbed ==
    (last.op = "predict" /\ last.confidence_calls = 1) =>
        /\ last.result.kind = "dict"
        /\ last.result.predicted_price = ModelPrice
        /\ ~WellFormedRanges(last.pre.model_metadata) =>
               last.result.confidence = "Unknown"

\* the features with an entry that holds all four statistics
Usable(m) ==
    {i \in 1..3 : /\ m.feature_ranges[Features[i]].present
                  /\ m.feature_ranges[Features[i]].complete}

\* the label of the average of the threshold scores of the features in set
AverageLabel(set) ==
    LET n == Cardinality(set)
        score(i) == IF i \in set THEN ScoreOf(i) ELSE 0
        total == score(1) + score(2) + score(3)
    IN  IF n = 0 THEN "Unknown"
        ELSE IF total >= 8 * n THEN "High"
        ELSE IF total >= 6 * n THEN "Medium"
        ELSE "Low"

\* C14 as stated: a feature whose statistics are malformed is skipped: the
\* label is the average over the features with usable statistics, and it is
\* "Unknown" only when no feature has usable statistics.
C14_MalformedFeatureSkipped ==
    (/\ last.op = "predict" /\ last.result.kind = "dict"
     /\ last.pre.model_metadata.kind = "dict"
     /\ last.pre.model_metadata.has_feature_ranges) =>
        last.result.confidence = AverageLabel(Usable(last.pre.model_metadata))

\* C14 amended: a feature absent from feature_ranges is skipped and the label
\* is the average over the features that are present; when the entry of a
\* present feature lacks a statistic the label is "Unknown", whatever the
\* statistics of the other features.
C14_MalformedGivesUnknown ==
    (/\ last.op = "predict" /\ last.result.kind = "dict"
     /\ last.pre.model_metadata.kind = "dict"
     /\ last.pre.model_metadata.has_feature_ranges) =>
        last.result.confidence =
            IF Usable(last.pre.model_metadata) = Scored(last.pre.model_metadata)
            THEN AverageLabel(Scored(last.pre.model_metadata))
            ELSE "Unknown"

\* square footage has statistics and scores 0.9, the bedrooms entry lacks a
\* key, and the label is "Unknown"
C14_Witness ==
    /\ last.op = "predict" /\ last.result.kind = "dict"
    /\ last.pre.model_metadata.kind = "dict"
    /\ last.pre.model_metadata.has_feature_ranges
    /\ Usable(last.pre.model_metadata) = {1}
    /\ Scored(last.pre.model_metadata) = {1, 2}
    /\ last.points["Square_Footage"] = 9
    /\ last.result.confidence = "Unknown"

\* C15: a successful prediction invokes the model's predict exactly once, on
\* the vector (square_footage, bedrooms, total_bathrooms); its result echoes
\* the three inputs and carries the label calculate_confidence gives the same
\* three inputs; a call failing for no model or a non-positive input invokes
\* predict zero times.
C15_PredictOnceOnTheInputs ==
    last.op = "predict" =>
        /\ last.result.kind = "dict" =>
              /\ last.predict_calls = 1
              /\ last.predict_args = last.args
              /\ last.result.predicted_price = ModelPrice
              /\ last.result.inputs = last.args
              /\ last.confidence_calls = 1
              /\ last.result.confidence = LabelFor(last.args)
        /\ (last.pre.loaded_model.kind = "None" \/ ~Positive(last.args)) =>
              /\ last.result = ResultNone
              /\ last.predict_calls = 0

\* a successful prediction for three different values
C15_Witness ==
    /\ last.op = "predict" /\ last.result.kind = "dict"
    /\ last.args = <<3100, 5, 3>>
    /\ last.predict_calls = 1 /\ last.predict_args = <<3100, 5, 3>>
    /\ last.result.inputs = <<3100, 5, 3>>
    /\ last.result.confidence = "Medium"

IsDigit(c) == \E d \in 1..10 : DigitChars[d] = c

DigitValue(c) == (CHOOSE d \in 1..10 : DigitChars[d] = c) - 1

\* the number a sequence of digits and separating commas reads as
RECURSIVE NumberOf(_)
NumberOf(chars) ==
    IF chars = <<>> THEN 0
    ELSE LET front == SubSeq(chars, 1, Len(chars) - 1)
             c == chars[Len(chars)]
         IN  IF c = "," THEN NumberOf(front)
             ELSE 10 * NumberOf(front) + DigitValue(c)

\* C16: formatted_price is the raw prediction rendered as a dollar sign
\* followed by the value with thousands separators and exactly two decimal
\* places (the value to the nearest cent); a raw prediction of 452301.7
\* formats as "$452,301.70".
C16_FormattedPrice ==
    (last.op = "predict" /\ last.result.kind = "dict") =>
        LET f == last.result.formatted_price
            n == Len(f)
            whole == SubSeq(f, 2, n - 3)
            w == Len(whole)
        IN  /\ n >= 5
            /\ f[1] = "$"
            /\ f[n - 2] = "."
            /\ IsDigit(f[n - 1]) /\ IsDigit(f[n])
            /\ \A k \in 1..w :
                  IF k > 1 /\ (w - k + 1) % 4 = 0 THEN whole[k] = ","
                  ELSE IsDigit(whole[k])
            /\ w > 1 => whole[1] # "0"
            /\ Distance(10 * (100 * NumberOf(whole) + NumberOf(<<f[n - 1], f[n]>>)),
                        last.result.predicted_price) <= 5
            /\ last.result.predicted_price = 452301700 =>
                  f = <<"$", "4", "5", "2", ",", "3", "0", "1", ".", "7", "0">>

\* the raw prediction 452301.7 and its formatted price
C16_Witness ==
    /\ last.op = "predict" /\ last.result.kind = "dict"
    /\ last.result.predicted_price = 452301700
    /\ last.result.formatted_price =
           <<"$", "4", "5", "2", ",", "3", "0", "1", ".", "7", "0">>

\* C17: whenever load_model_from_file returns failure, the three globals are
\* exactly as they were before the call.
C17_FailedLoadLeavesGlobals ==
    (last.op = "load" /\ ~last.ok) => Globals = last.pre

C19_ModelStaysLoaded ==
    last.pre.loaded_model.kind # "None" =>
        /\ loaded_model.kind # "None"
        /\ last.op = "predict" =>
              last.error # <<"No model loaded. Please load a model first.">>
        /\ last.op = "model_info" => last.ok

----------------------------------------------------------------------------
(* A load and a prediction on two threads of the server (Flask 2.3.3 serves *)
(* each request on its own thread).  A step is a statement that reads or    *)
(* writes a global; the interpreter may switch threads between any two.     *)

ConcModelPaths == {ModelA, ModelB, ModelCorrupt}
ConcMetadataPaths == {PathNone, MetaA, MetaB, MetaTruncated}
ConcArgs == {<<2000, 3, 2>>, <<3600, 3, 2>>, <<0, 3, 2>>}

PredictInFlight == prd.pc \notin {"idle", "returned"}

SetGlobals(g) ==
    /\ loaded_model' = g.loaded_model
    /\ model_metadata' = g.model_metadata
    /\ model_info' = g.model_info

\* the load returns with the globals g: a prediction that overlapped it (in
\* flight, or returned while the load was running: open) has now overlapped
\* a load that ended with the pair of g
LoadReturns(g) ==
    /\ ldr' = LoaderIdle
    /\ prd' = IF PredictInFlight \/ prd.open
              THEN [prd EXCEPT !.pairs = @ \cup {Pair(g)}, !.open = FALSE]
              ELSE prd

\* the call begins: lines 41-49
ConcLoadBegin ==
    \E model_path \in ConcModelPaths, metadata_path \in ConcMetadataPaths :
        \E r \in {LoadDeserialize(Globals, model_path, clock + 1)} :
            /\ ldr.pc = "idle"
            /\ clock < MaxLoads
            /\ clock' = clock + 1
            /\ SetGlobals(r.g)
            /\ IF r.exc # NoExc
               THEN LoadReturns(r.g)
               ELSE /\ ldr' = [pc |-> "L52", model_path |-> model_path,
                               metadata_path |-> metadata_path,
                               now |-> clock + 1, before |-> Pair(Globals)]
                    /\ prd' = prd
            /\ UNCHANGED <<last, last_ok_load>>

\* line 52
ConcLoadL52 ==
    /\ ldr.pc = "L52"
    /\ SetGlobals(LoadResetMetadata(Globals))
    /\ ldr' = [ldr EXCEPT !.pc = "L53"]
    /\ UNCHANGED <<clock, last, last_ok_load, prd>>

\* lines 53-56
ConcLoadL53 ==
    \E r \in {LoadReadMetadata(Globals, ldr.metadata_path, ldr.now)} :
        /\ ldr.pc = "L53"
        /\ SetGlobals(r.g)
        /\ IF r.exc # NoExc
           THEN LoadReturns(r.g)
           ELSE ldr' = [ldr EXCEPT !.pc = "L59"] /\ prd' = prd
        /\ UNCHANGED <<clock, last, last_ok_load>>

\* lines 59-65
ConcLoadL59 ==
    /\ ldr.pc = "L59"
    /\ SetGlobals(LoadSetInfo(Globals, ldr.model_path, ldr.metadata_path, ldr.now))
    /\ ldr' = [ldr EXCEPT !.pc = "L67"]
    /\ UNCHANGED <<clock, last, last_ok_load, prd>>

\* lines 67-75
ConcLoadL67 ==
    \E r \in {LoadUpdateInfo(Globals)} :
        /\ ldr.pc = "L67"
        /\ SetGlobals(r.g)
        /\ LoadReturns(r.g)
        /\ UNCHANGED <<clock, last, last_ok_load>>

PredictorReturns(r) ==
    prd' = [prd EXCEPT !.pc = "returned", !.result = r.result, !.error = r.error,
                       !.open = ldr.pc # "idle"]

\* the call begins: lines 84-89
ConcPredictBegin ==
    \E args \in ConcArgs :
        /\ prd.pc \in {"idle", "returned"}
        /\ IF NoModelLoaded(Globals) \/ InvalidInput(args[1], args[2], args[3])
           THEN prd' = [PredictorIdle EXCEPT
                          !.pc = "returned", !.args = args,
                          !.error = predict_price(Globals, args[1], args[2],
                                                  args[3]).error]
           ELSE prd' = [PredictorIdle EXCEPT
                          !.pc = "L93", !.args = args,
                          !.pairs = {IF ldr.pc = "idle" THEN Pair(Globals)
                                     ELSE ldr.before}]
        /\ UNCHANGED <<loaded_model, model_metadata, model_info, clock, last,
                       last_ok_load, ldr>>

\* lines 92-93
ConcPredictL93 ==
    \E p \in {ModelPredict(loaded_model, prd.args)} :
        /\ prd.pc = "L93"
        /\ IF p.exc # NoExc
           THEN PredictorReturns(PredictFailure(p.exc, 1, prd.args, 0))
           ELSE prd' = [prd EXCEPT !.pc = "L117", !.prediction = p.value]
        /\ UNCHANGED <<loaded_model, model_metadata, model_info, clock, last,
                       last_ok_load, ldr>>

\* the value predict_price returns once calculate_confidence has ended with c
PredictEnds(c) ==
    IF c.exc # NoExc
    THEN PredictorReturns(PredictFailure(c.exc, 1, prd.args, 1))
    ELSE PredictorReturns(
             PredictReturn(PredictResult(prd.prediction, c.label, prd.args[1],
                                         prd.args[2], prd.args[3]),
                           NoMessage, 1, prd.args, 1, c.points))

\* line 117, not model_metadata
ConcPredictL117 ==
    /\ prd.pc = "L117"
    /\ IF ~MetadataTruthy(model_metadata)
       THEN PredictEnds(ConfidenceOf(model_metadata, model_metadata,
                                     model_metadata, prd.args))
       ELSE prd' = [prd EXCEPT !.pc = "L117in", !.m_truth = model_metadata]
    /\ UNCHANGED <<loaded_model, model_metadata, model_info, clock, last,
                   last_ok_load, ldr>>

\* line 117, 'feature_ranges' not in model_metadata
ConcPredictL117in ==
    /\ prd.pc = "L117in"
    /\ IF model_metadata.kind = "None" \/ ~model_metadata.has_feature_ranges
       THEN PredictEnds(ConfidenceOf(prd.m_truth, model_metadata,
                                     model_metadata, prd.args))
       ELSE prd' = [prd EXCEPT !.pc = "L121", !.m_keys = model_metadata]
    /\ UNCHANGED <<loaded_model, model_metadata, model_info, clock, last,
                   last_ok_load, ldr>>

\* line 121 to the return of predict_price
ConcPredictL121 ==
    /\ prd.pc = "L121"
    /\ PredictEnds(ConfidenceOf(prd.m_truth, prd.m_keys, model_metadata,
                                prd.args))
    /\ UNCHANGED <<loaded_model, model_metadata, model_info, clock, last,
                   last_ok_load, ldr>>

NextConc ==
    \/ ConcLoadBegin \/ ConcLoadL52 \/ ConcLoadL53 \/ ConcLoadL59 \/ ConcLoadL67
    \/ ConcPredictBegin \/ ConcPredictL93 \/ ConcPredictL117
    \/ ConcPredictL117in \/ ConcPredictL121

SpecConc == Init /\ [][NextConc]_vars

\* what predict_price returns when it runs on the pair alone
PredictionFrom(pair, args) ==
    predict_price([loaded_model |-> pair.model, model_metadata |-> pair.metadata,
                   model_info |-> InfoNone], args[1], args[2], args[3])

\* C4: a prediction that overlaps a load returns the price and the confidence
\* label of one model+metadata pair: the pair in place before the load or the
\* pair in place after it.
C4_PredictionFromOnePair ==
    (prd.pc = "returned" /\ ~prd.open /\ prd.result # ResultNone) =>
        \E pair \in prd.pairs :
            /\ PredictionFrom(pair, prd.args).result.predicted_price =
                  prd.result.predicted_price
            /\ PredictionFrom(pair, prd.args).result.confidence =
                  prd.result.confidence

====
